---- MODULE Spec2Model ----
(***************************************************************************)
(* A model of dj_utils.fields.ido: the IdObfuscator n-bit mixing algorithm *)
(* (create_from_seed, __init__, get_obfuscated_id_value,                   *)
(* get_obfuscated_id) and the construction of ObfuscatedIdField; the save  *)
(* handlers of ObfuscatedIdField; dj_utils.fields.json_field; and the      *)
(* method_required decorator of dj_utils.decorators and utils.decorators.  *)
(*                                                                         *)
(* Python lists and strings are TLA+ sequences; At(s, i) is the zero-based *)
(* s[i] of the source.  Python integers are unbounded, and so are TLA+'s.  *)
(***************************************************************************)
EXTENDS Integers, Sequences, FiniteSets, TLC

VARIABLES ido, field, op, tape, prev, threads, instance, table, saving, json, http

vars == <<ido, field, op, tape, prev, threads, instance, table, saving, json, http>>

idoVars == <<ido, field, op, tape, prev>>
threadVars == <<threads>>
saveVars == <<instance, table, saving>>
jsonVars == <<json>>
httpVars == <<http>>

----------------------------------------------------------------------------
(* Bounds of the model.                                                    *)

\* create_from_seed is explored for every bits in -MaxNeg..MaxBits.
MaxBits == 2
MaxNeg == 2
\* IdObfuscator(xors) is constructed directly for every bits in -1..MaxEncBits.
MaxEncBits == 6
\* Raw values reach from -MaxSlack to 2^bits - 1 + MaxSlack.
MaxSlack == 1
\* The seeded generator of SpecSeeded is fixed for bits up to MaxSeedBits.
MaxSeedBits == 2
\* The saved model's field has bits in 1..MaxSaveBits; primary keys are in
\* 1..MaxRowId; save() calls nest at most MaxDepth deep.
MaxSaveBits == 1
MaxRowId == 2
MaxDepth == 3
\* The lists, tuples and dicts given to a JSONField have up to MaxItems items.
MaxItems == 2
\* method_required is given up to MaxMethods methods.
MaxMethods == 2

----------------------------------------------------------------------------
(* Python values.                                                          *)

None == "None"
\* The seed attribute of an IdObfuscator that create_from_seed did not build.
NoAttr == "<unset>"
ExplicitSeed == "333cd3bc-7fd9-4310-93c2-e906c9b7b269"
Seeds == {None, ExplicitSeed}

\* A keyword argument that may be absent: <<>> is absent (or None), <<v>> is v.
Absent == << >>
Given(v) == <<v>>

At(s, i) == s[i + 1]
Last(s) == s[Len(s)]
Range(n) == [i \in 1..(IF n > 0 THEN n ELSE 0) |-> i - 1]
Reversed(s) == [i \in 1..Len(s) |-> s[Len(s) + 1 - i]]
Zip(a, b) ==
  [i \in 1..(IF Len(a) < Len(b) THEN Len(a) ELSE Len(b)) |-> <<a[i], b[i]>>]

\* x & y for an integer x (negative: two's complement) and y >= 0.
RECURSIVE BitAnd(_, _)
BitAnd(x, y) ==
  IF y = 0 THEN 0
  ELSE (x % 2) * (y % 2) + 2 * BitAnd(x \div 2, y \div 2)

BitXorAsAdd(x, y) == x + y

\* x ^ y for x, y >= 0.
RECURSIVE BitXor(_, _)
BitXor(x, y) ==
  IF x = 0 THEN y
  ELSE IF y = 0 THEN x
  ELSE (((x % 2) + (y % 2)) % 2) + 2 * BitXor(x \div 2, y \div 2)

DEFAULT_CODE_CHARS ==
  << "a", "b", "c", "d", "e", "f", "g", "h", "i", "j", "k", "m", "n", "p",
     "q", "r", "s", "t", "u", "v", "w", "x", "y", "z", "2", "3", "4", "5",
     "6", "7", "8", "9" >>

----------------------------------------------------------------------------
(* IdObfuscator.__init__                                                   *)

MasksOffByOne(bits) == [i \in 1..(IF bits + 1 > 0 THEN bits + 1 ELSE 0) |-> 2^(i - 1)]

\* self.masks = [1 << i for i in range(self.bits)]
Masks(bits) == [i \in 1..Len(Range(bits)) |-> 2^At(Range(bits), i - 1)]

\* code_chars or IdObfuscator.DEFAULT_CODE_CHARS: None and "" are both false.
CodeCharsOr(code_chars) ==
  IF code_chars = Absent \/ Len(code_chars[1]) = 0
  THEN DEFAULT_CODE_CHARS
  ELSE code_chars[1]

\* The object __init__ builds; its seed attribute is not set.
IdObfuscator(xors, code_chars) ==
  [ xors       |-> xors,
    bits       |-> Len(xors) - 1,
    code_chars |-> CodeCharsOr(code_chars),
    masks      |-> Masks(Len(xors) - 1),
    seed       |-> NoAttr ]

\* assert len(self.code_chars) == 32
InitAsserts(code_chars) == Len(CodeCharsOr(code_chars)) = 32

----------------------------------------------------------------------------
(* The random generator of create_from_seed.                               *)

\* The values rnd.randint(0, (1 << i) - 1) can return for i = 0 .. n-1.
RECURSIVE RandInts(_)
RandInts(n) ==
  IF n <= 0 THEN { << >> }
  ELSE { Append(r, x) : r \in RandInts(n - 1), x \in 0..(2^(n - 1) - 1) }

\* The orders rnd.shuffle can leave range(n) in.
Shuffles(n) ==
  IF n <= 0 THEN { << >> }
  ELSE { m \in [1..n -> 0..(n - 1)] :
           \A i, j \in 1..n : i # j => m[i] # m[j] }

\* What one run of create_from_seed draws: bits+1 integers, then one shuffle.
DrawSpace(bits) == [ r : RandInts(bits + 1), mapping : Shuffles(bits) ]

\* No generator function is fixed: rnd may draw anything for any seed.
NoTape == [ fixed |-> FALSE ]

\* The generator functions of one seed: the integers it draws first, and the
\* shuffle that follows bits+1 of them.
TapeSpace ==
  { [ fixed |-> TRUE, r |-> r, shuffle |-> s ] :
      r \in RandInts(MaxSeedBits + 1),
      s \in { f \in [1..MaxSeedBits -> UNION { Shuffles(b) : b \in 1..MaxSeedBits }] :
                \A b \in 1..MaxSeedBits : f[b] \in Shuffles(b) } }

TapeDraws(bits) ==
  [ r       |-> SubSeq(tape.r, 1, IF bits + 1 > 0 THEN bits + 1 ELSE 0),
    mapping |-> IF bits > 0 THEN tape.shuffle[bits] ELSE << >> ]

RndDrawsUnseeded(seed, bits) == DrawSpace(bits)

\* rnd = random.Random(); rnd.seed(seed): a fresh generator whose draws are a
\* function of the seed; seed None seeds it from the clock.
RndDraws(seed, bits) ==
  IF tape = NoTape \/ seed = None
  THEN DrawSpace(bits)
  ELSE { TapeDraws(bits) }

----------------------------------------------------------------------------
(* IdObfuscator.create_from_seed                                           *)

\* [(1 << i) + rnd.randint(0, (1 << i) - 1) for i in range(bits+1)]
XorTemp(bits, r) == [k \in 1..Len(Range(bits + 1)) |-> 2^(k - 1) + r[k]]

\* for i in range(bits): if x & (1 << i): v += (1 << mapping[i])
RECURSIVE ShuffleLoop(_, _, _, _, _)
ShuffleLoop(x, mapping, bits, i, v) ==
  IF i >= bits THEN v
  ELSE ShuffleLoop(x, mapping, bits, i + 1,
                   IF BitAnd(x, 2^i) # 0 THEN v + 2^At(mapping, i) ELSE v)

ShuffleBitsUnmasked(x, mapping, bits) == x

ShuffleBits(x, mapping, bits) == ShuffleLoop(x, mapping, bits, 0, 0)

create_from_seed_unreversed(bits, seed, d) ==
  LET xor_temp == XorTemp(bits, d.r)
      xors == [k \in 1..Len(xor_temp) |-> ShuffleLoop(xor_temp[k], d.mapping, bits, 0, 0)]
  IN  [ IdObfuscator(xors, Absent) EXCEPT !.seed = seed ]

\* xors.reverse(); ido = IdObfuscator(xors); ido.seed = seed
create_from_seed(bits, seed, d) ==
  LET xor_temp == XorTemp(bits, d.r)
      xors == [k \in 1..Len(xor_temp) |-> ShuffleBits(xor_temp[k], d.mapping, bits)]
  IN  [ IdObfuscator(Reversed(xors), Absent) EXCEPT !.seed = seed ]

----------------------------------------------------------------------------
(* IdObfuscator.get_obfuscated_id_value and get_obfuscated_id              *)

\* for mask, xor in zip(self.masks, self.xors): if raw_value & mask: result ^= xor
RECURSIVE MixLoop(_, _, _, _)
MixLoop(pairs, k, raw_value, result) ==
  IF k > Len(pairs) THEN result
  ELSE MixLoop(pairs, k + 1, raw_value,
               IF BitAnd(raw_value, pairs[k][1]) # 0
               THEN BitXor(result, pairs[k][2])
               ELSE result)

get_obfuscated_id_value_skip_base(self, raw_value) ==
  MixLoop(Zip(self.masks, self.xors), 1, raw_value, 0)

\* result = self.xors[-1], then the loop.
get_obfuscated_id_value(self, raw_value) ==
  MixLoop(Zip(self.masks, self.xors), 1, raw_value, Last(self.xors))

CodeWidthRoundedDown(bits) == (bits \div 5) + 1

\* (self.bits+4) // 5, also the field's max_length.
CodeWidth(bits) == (bits + 4) \div 5

\* for i in range(n): r.append(code_chars[value % 32]); value >>= 5
RECURSIVE EncodeLoop(_, _, _, _)
EncodeLoop(code_chars, n, value, r) ==
  IF n <= 0 THEN r
  ELSE EncodeLoop(code_chars, n - 1, value \div 32,
                  Append(r, At(code_chars, value % 32)))

EncodeNotReversed(code_chars, bits, value) ==
  EncodeLoop(code_chars, CodeWidth(bits), value, << >>)

EncodeNarrowShift(code_chars, bits, value) ==
  [ k \in 1..CodeWidth(bits) |->
      At(code_chars, (value \div 16^(CodeWidth(bits) - k)) % 32) ]

\* "".join(reversed(r))
Encode(code_chars, bits, value) ==
  Reversed(EncodeLoop(code_chars, CodeWidth(bits), value, << >>))

get_obfuscated_id(self, raw_value) ==
  Encode(self.code_chars, self.bits, get_obfuscated_id_value(self, raw_value))

----------------------------------------------------------------------------
(* State.                                                                  *)
(*   ido    the IdObfuscator under study, NoIdo before one is constructed  *)
(*   field  the ObfuscatedIdField that owns ido, NoField for a bare ido    *)
(*   op     the last call made: its name, integer argument, the exception  *)
(*          it raised (None: it returned), the numeric value and the code  *)
(*          it computed                                                    *)
(*   tape   the generator function of ExplicitSeed, NoTape when unfixed    *)
(*   prev   the IdObfuscator the previous run of the process had built     *)
(*   threads   the frame of each thread that calls the shared ido           *)
(*   instance  the model instance in memory, NoInstance before there is one *)
(*   table     the rows of the model's table, by primary key               *)
(*   saving    the stack of the save() calls in progress, and of the last  *)
(*             outermost save(): whether it created the row, whether the   *)
(*             insert assigned the id, the value the field held before it, *)
(*             and the writes it has issued                                *)
(*   json      the JSONField attribute, its column and the value re-read   *)
(*   http      the decorated view, the last request and its response       *)

NoIdo == [ built |-> FALSE ]
NoField == [ built |-> FALSE ]

Call(name, arg, exc, value, code) ==
  [ name |-> name, arg |-> arg, exc |-> exc, value |-> value, code |-> code ]

\* The bits create_from_seed and the field are given.
BitsChoices == (0 - MaxNeg)..MaxBits

\* The xors IdObfuscator(xors) is given: bits+1 masks for bits = -1 .. MaxEncBits.
UnitXors(bits) == [i \in 1..(bits + 1) |-> IF i <= bits THEN 2^(i - 1) ELSE 0]
MirrorXors(bits) == [i \in 1..(bits + 1) |-> IF i <= bits THEN 2^(bits - i) ELSE 2^bits - 1]
WideXors(bits) == [i \in 1..(bits + 1) |-> IF i <= bits THEN 2^(i - 1) ELSE 2^(bits + 5)]
XorsChoices ==
  UNION { { UnitXors(b), MirrorXors(b), WideXors(b) } :
            b \in (0 - 1)..MaxEncBits }

\* The code_chars given: none, "", a second 32-symbol alphabet, one with a
\* repeated symbol, one of 31 symbols.
RepeatedChars == [i \in 1..32 |-> IF i = 32 THEN "a" ELSE DEFAULT_CODE_CHARS[i]]
ShortChars == SubSeq(DEFAULT_CODE_CHARS, 1, 31)
CodeCharsChoices ==
  { Absent, Given(<< >>), Given(Reversed(DEFAULT_CODE_CHARS)),
    Given(RepeatedChars), Given(ShortChars) }

RawValues(self) ==
  (0 - MaxSlack)..(2^(IF self.bits > 0 THEN self.bits ELSE 0) - 1 + MaxSlack)

\* The other components before they are used.
NoThreads == << >>
NoInstance == [ made |-> FALSE ]
NoRows == << >>
NoSave ==
  [ phase |-> "none", stack |-> << >>, new |-> FALSE, auto |-> FALSE,
    before |-> << >>, writes |-> << >> ]
NoJson == [ assigned |-> FALSE ]
NoHttp == [ decorated |-> FALSE ]

Unused ==
  /\ threads = NoThreads
  /\ instance = NoInstance
  /\ table = NoRows
  /\ saving = NoSave
  /\ json = NoJson
  /\ http = NoHttp

Init ==
  /\ ido = NoIdo
  /\ field = NoField
  /\ op = Call("import", 0, None, 0, << >>)
  /\ tape = NoTape
  /\ prev = NoIdo
  /\ Unused

\* ido = IdObfuscator.create_from_seed(bits, seed)
CreateFromSeed(bits, seed) ==
  /\ ido = NoIdo
  /\ \E d \in RndDraws(seed, bits) : ido' = create_from_seed(bits, seed, d)
  /\ field' = NoField
  /\ op' = Call("create_from_seed", bits, None, 0, << >>)
  /\ UNCHANGED <<tape, prev>>
  /\ UNCHANGED <<threadVars, saveVars, jsonVars, httpVars>>

\* ido = IdObfuscator(xors, code_chars)
Construct(xors, code_chars) ==
  /\ ido = NoIdo
  /\ IF InitAsserts(code_chars)
     THEN /\ ido' = IdObfuscator(xors, code_chars)
          /\ op' = Call("__init__", Len(xors) - 1, None, 0, << >>)
     ELSE /\ ido' = ido
          /\ op' = Call("__init__", Len(xors) - 1, "AssertionError", 0, << >>)
  /\ field' = NoField
  /\ UNCHANGED <<tape, prev>>
  /\ UNCHANGED <<threadVars, saveVars, jsonVars, httpVars>>

\* ObfuscatedIdField(bits=bits, seed=seed[, code_chars=code_chars])
FieldInit(bits, seed, code_chars) ==
  /\ ido = NoIdo
  /\ \E d \in RndDraws(seed, bits) :
       LET made == create_from_seed(bits, seed, d) IN
       IF code_chars # Absent /\ Len(code_chars[1]) # 32
       THEN /\ ido' = ido
            /\ field' = NoField
            /\ op' = Call("ObfuscatedIdField", bits, "AssertionError", 0, << >>)
       ELSE /\ ido' = IF code_chars # Absent
                      THEN [made EXCEPT !.code_chars = code_chars[1]]
                      ELSE made
            /\ field' = [ built        |-> TRUE,
                          source_field |-> "id",
                          max_length   |-> CodeWidth(bits) ]
            /\ op' = Call("ObfuscatedIdField", bits, None, 0, << >>)
  /\ UNCHANGED <<tape, prev>>
  /\ UNCHANGED <<threadVars, saveVars, jsonVars, httpVars>>

\* ido.get_obfuscated_id_value(raw_value); xors[-1] of an empty list raises.
GetObfuscatedIdValue(raw_value) ==
  /\ ido # NoIdo
  /\ op' = IF Len(ido.xors) = 0
           THEN Call("get_obfuscated_id_value", raw_value, "IndexError", 0, << >>)
           ELSE Call("get_obfuscated_id_value", raw_value, None,
                     get_obfuscated_id_value(ido, raw_value), << >>)
  /\ UNCHANGED <<ido, field, tape, prev>>
  /\ UNCHANGED <<threadVars, saveVars, jsonVars, httpVars>>

\* ido.get_obfuscated_id(raw_value): value = self.get_obfuscated_id_value(
\* raw_value), then the encoding of value.
GetObfuscatedId(raw_value) ==
  /\ ido # NoIdo
  /\ op' = IF Len(ido.xors) = 0
           THEN Call("get_obfuscated_id", raw_value, "IndexError", 0, << >>)
           ELSE LET value == get_obfuscated_id_value(ido, raw_value) IN
                Call("get_obfuscated_id", raw_value, None, value,
                     Encode(ido.code_chars, ido.bits, value))
  /\ UNCHANGED <<ido, field, tape, prev>>
  /\ UNCHANGED <<threadVars, saveVars, jsonVars, httpVars>>

\* The process starts again: the obfuscator is built anew (models.py is
\* imported again), the one of the last run is kept for comparison.
Restart ==
  /\ ido # NoIdo
  /\ prev' = ido
  /\ ido' = NoIdo
  /\ field' = NoField
  /\ op' = Call("import", 0, None, 0, << >>)
  /\ UNCHANGED tape
  /\ UNCHANGED <<threadVars, saveVars, jsonVars, httpVars>>

\* Obfuscators built from a seed, bare or owned by a field, and their use.
Next ==
  \/ \E bits \in BitsChoices, seed \in Seeds : CreateFromSeed(bits, seed)
  \/ \E bits \in BitsChoices, code_chars \in CodeCharsChoices :
       FieldInit(bits, ExplicitSeed, code_chars)
  \/ /\ ido # NoIdo
     /\ \E raw_value \in RawValues(ido) : GetObfuscatedIdValue(raw_value)
  \/ /\ ido # NoIdo
     /\ \E raw_value \in RawValues(ido) : GetObfuscatedId(raw_value)

Spec == Init /\ [][Next]_vars

\* Obfuscators constructed from given xors and code_chars, and their use.
NextEncode ==
  \/ \E xors \in XorsChoices, code_chars \in CodeCharsChoices :
       Construct(xors, code_chars)
  \/ /\ ido # NoIdo
     /\ \E raw_value \in RawValues(ido) : GetObfuscatedIdValue(raw_value)
  \/ /\ ido # NoIdo
     /\ \E raw_value \in RawValues(ido) : GetObfuscatedId(raw_value)

SpecEncode == Init /\ [][NextEncode]_vars

\* One generator function for ExplicitSeed, fixed over the whole behaviour:
\* the obfuscator is built from the seed again after every restart.  Builds
\* with seed None draw anything at every run; Spec covers them.
InitSeeded ==
  /\ ido = NoIdo
  /\ field = NoField
  /\ op = Call("import", 0, None, 0, << >>)
  /\ tape \in TapeSpace
  /\ prev = NoIdo
  /\ Unused

NextSeeded ==
  \/ \E bits \in 1..MaxSeedBits : CreateFromSeed(bits, ExplicitSeed)
  \/ \E bits \in 1..MaxSeedBits : FieldInit(bits, ExplicitSeed, Absent)
  \/ Restart
  \/ /\ ido # NoIdo
     /\ \E raw_value \in RawValues(ido) : GetObfuscatedId(raw_value)

SpecSeeded == InitSeeded /\ [][NextSeeded]_vars

----------------------------------------------------------------------------
(* Threads that call one shared IdObfuscator.  A thread runs its call one  *)
(* statement at a time: each loop iteration is a step, and its locals      *)
(* (result, value, r and the loop positions k and i) are in its frame.     *)

Threads == {"t1", "t2"}
Methods == {"get_obfuscated_id_value", "get_obfuscated_id"}

\* The shared obfuscators: masks that mirror the bits, and a base mask wide
\* enough for a nonzero leading digit; the default or a second alphabet.
ThreadXors == UNION { { MirrorXors(b), WideXors(b) } : b \in 1..MaxBits }
ThreadCodeChars == { Absent, Given(Reversed(DEFAULT_CODE_CHARS)) }

\* interleaved records that another thread ran while the call was running.
IdleFrame ==
  [ pc |-> "idle", method |-> None, raw_value |-> 0, result |-> 0, k |-> 0,
    value |-> 0, i |-> 0, r |-> << >>, interleaved |-> FALSE,
    ret |-> [value |-> 0, code |-> << >>] ]

Running(frame) == frame.pc \in {"mix", "encode"}

\* Thread t steps to the frame next; the calls of the others are overlapped.
Ran(t, next) ==
  [ u \in Threads |->
      IF u = t THEN next
      ELSE IF Running(threads[u]) THEN [threads[u] EXCEPT !.interleaved = TRUE]
      ELSE threads[u] ]

AccumulatorOnSelf(frames, t) == frames["t1"].result

\* result, a local variable of the call of thread t.
Accumulator(frames, t) == frames[t].result

\* The threads are started on the constructed obfuscator.
Spawn ==
  /\ ido # NoIdo
  /\ threads = NoThreads
  /\ threads' = [t \in Threads |-> IdleFrame]
  /\ UNCHANGED <<idoVars, saveVars, jsonVars, httpVars>>

\* Thread t enters method(raw_value), up to result = self.xors[-1].
ThreadCall(t, method, raw_value) ==
  /\ threads # NoThreads
  /\ ~Running(threads[t])
  /\ threads' = Ran(t, [IdleFrame EXCEPT !.pc = "mix",
                                         !.method = method,
                                         !.raw_value = raw_value,
                                         !.result = Last(ido.xors)])
  /\ UNCHANGED <<idoVars, saveVars, jsonVars, httpVars>>

\* One iteration of `for mask, xor in zip(self.masks, self.xors)`.
MixStep(t) ==
  /\ threads # NoThreads
  /\ threads[t].pc = "mix"
  /\ LET frame == threads[t]
         pairs == Zip(ido.masks, ido.xors)
     IN  /\ frame.k < Len(pairs)
         /\ threads' = Ran(t,
              [frame EXCEPT
                 !.k = frame.k + 1,
                 !.result = IF BitAnd(frame.raw_value, pairs[frame.k + 1][1]) # 0
                            THEN BitXor(Accumulator(threads, t), pairs[frame.k + 1][2])
                            ELSE Accumulator(threads, t)])
  /\ UNCHANGED <<idoVars, saveVars, jsonVars, httpVars>>

\* `return result`: to the caller of get_obfuscated_id_value, or into
\* `value` of get_obfuscated_id.
MixReturn(t) ==
  /\ threads # NoThreads
  /\ threads[t].pc = "mix"
  /\ LET frame == threads[t] IN
     /\ frame.k >= Len(Zip(ido.masks, ido.xors))
     /\ threads' = Ran(t,
          IF frame.method = "get_obfuscated_id_value"
          THEN [frame EXCEPT !.pc = "done", !.k = 0, !.result = 0,
                             !.ret = [value |-> Accumulator(threads, t), code |-> << >>]]
          ELSE [frame EXCEPT !.pc = "encode", !.k = 0, !.result = 0,
                             !.value = Accumulator(threads, t)])
  /\ UNCHANGED <<idoVars, saveVars, jsonVars, httpVars>>

\* One iteration of `for i in range((self.bits+4) // 5)`.
EncodeStep(t) ==
  /\ threads # NoThreads
  /\ threads[t].pc = "encode"
  /\ LET frame == threads[t] IN
     /\ frame.i < CodeWidth(ido.bits)
     /\ threads' = Ran(t,
          [frame EXCEPT !.i = frame.i + 1,
                        !.r = Append(frame.r, At(ido.code_chars, frame.value % 32)),
                        !.value = frame.value \div 32])
  /\ UNCHANGED <<idoVars, saveVars, jsonVars, httpVars>>

\* return "".join(reversed(r))
EncodeReturn(t) ==
  /\ threads # NoThreads
  /\ threads[t].pc = "encode"
  /\ LET frame == threads[t] IN
     /\ frame.i >= CodeWidth(ido.bits)
     /\ threads' = Ran(t,
          [frame EXCEPT !.pc = "done", !.i = 0, !.r = << >>, !.value = 0,
                        !.ret = [value |-> 0, code |-> Reversed(frame.r)]])
  /\ UNCHANGED <<idoVars, saveVars, jsonVars, httpVars>>

NextThreads ==
  \/ \E xors \in ThreadXors, code_chars \in ThreadCodeChars :
       Construct(xors, code_chars)
  \/ Spawn
  \/ /\ ido # NoIdo
     /\ \E t \in Threads, method \in Methods, raw_value \in RawValues(ido) :
          ThreadCall(t, method, raw_value)
  \/ \E t \in Threads : MixStep(t)
  \/ \E t \in Threads : MixReturn(t)
  \/ \E t \in Threads : EncodeStep(t)
  \/ \E t \in Threads : EncodeReturn(t)

SpecThreads == Init /\ [][NextThreads]_vars

----------------------------------------------------------------------------
(* ObfuscatedIdField on a saved model.  Model.save() sends pre_save, writes *)
(* the row (an INSERT when the instance has no primary key or no row has   *)
(* it, else an UPDATE), then sends post_save with created; the two handlers *)
(* that contribute_to_class connects are _pre_save and _post_save.  The    *)
(* source field is the positive integer primary key `id`.                  *)

\* Python truth of a source value: None and 0 are false.
Truthy(v) == v # Absent /\ v[1] # 0

pre_save_if_unset(self, inst) ==
  IF Truthy(inst.id) /\ inst.oid = Absent
  THEN [inst EXCEPT !.oid = Given(get_obfuscated_id(self, inst.id[1]))]
  ELSE inst

\* _pre_save: the instance it leaves.
pre_save(self, inst) ==
  LET source_val == inst.id IN
  IF Truthy(source_val)
  THEN [inst EXCEPT !.oid = Given(get_obfuscated_id(self, source_val[1]))]
  ELSE [inst EXCEPT !.oid = Absent]

post_save_always(self, inst, created) ==
  [ exc |-> None, save |-> TRUE,
    instance |-> [inst EXCEPT !.oid = Given(get_obfuscated_id(self, inst.id[1]))] ]

\* _post_save: the exception it raises (the message of the failed assert
\* calls `_`, a name the module does not define), the instance it leaves,
\* and whether it calls instance.save().
post_save(self, inst, created) ==
  IF created
  THEN LET source_val == inst.id IN
       IF ~Truthy(source_val)
       THEN [ exc |-> "NameError", save |-> FALSE, instance |-> inst ]
       ELSE [ exc |-> None, save |-> TRUE,
              instance |-> [inst EXCEPT
                              !.oid = Given(get_obfuscated_id(self, source_val[1]))] ]
  ELSE [ exc |-> None, save |-> FALSE, instance |-> inst ]

Frame(pc, created) == [ pc |-> pc, created |-> created ]
Top(stack) == stack[Len(stack)]
Pop(stack) == SubSeq(stack, 1, Len(stack) - 1)

\* The id an INSERT without primary key assigns.
NextId ==
  IF DOMAIN table = {} THEN 1
  ELSE (CHOOSE n \in DOMAIN table : \A m \in DOMAIN table : m <= n) + 1

\* The values the field attribute is given before a save: None, or a string
\* that is the code of no id.
FieldValues == { Absent, Given(<< "?" >>) }

\* instance = TestModel() or TestModel(id=id)
NewInstance(id) ==
  /\ field # NoField
  /\ saving.stack = << >>
  /\ instance' = [ made |-> TRUE, id |-> id, oid |-> Absent ]
  /\ saving' = NoSave
  /\ UNCHANGED <<idoVars, threadVars, table, jsonVars, httpVars>>

\* instance = TestModel.objects.get(pk=id)
Get(id) ==
  /\ field # NoField
  /\ saving.stack = << >>
  /\ id \in DOMAIN table
  /\ instance' = [ made |-> TRUE, id |-> Given(id), oid |-> table[id].oid ]
  /\ saving' = NoSave
  /\ UNCHANGED <<idoVars, threadVars, table, jsonVars, httpVars>>

\* instance.ido = value
SetOid(value) ==
  /\ instance # NoInstance
  /\ saving.stack = << >>
  /\ instance' = [instance EXCEPT !.oid = value]
  /\ saving' = NoSave
  /\ UNCHANGED <<idoVars, threadVars, table, jsonVars, httpVars>>

\* instance.save() is entered.
Save ==
  /\ instance # NoInstance
  /\ saving.stack = << >>
  /\ instance.id = Absent => NextId <= MaxRowId
  /\ saving' = [ phase  |-> "running",
                 stack  |-> << Frame("pre_save", FALSE) >>,
                 new    |-> instance.id = Absent \/ instance.id[1] \notin DOMAIN table,
                 auto   |-> instance.id = Absent,
                 before |-> instance.oid,
                 writes |-> << >> ]
  /\ UNCHANGED <<idoVars, threadVars, instance, table, jsonVars, httpVars>>

\* The pre_save signal of the innermost save(): _pre_save runs.
PreSave ==
  /\ saving.stack # << >>
  /\ Top(saving.stack).pc = "pre_save"
  /\ instance' = pre_save(ido, instance)
  /\ saving' = [saving EXCEPT !.stack[Len(saving.stack)].pc = "write"]
  /\ UNCHANGED <<idoVars, threadVars, table, jsonVars, httpVars>>

\* The innermost save() writes the row.
Write ==
  /\ saving.stack # << >>
  /\ Top(saving.stack).pc = "write"
  /\ LET insert == instance.id = Absent \/ instance.id[1] \notin DOMAIN table
         id == IF instance.id = Absent THEN NextId ELSE instance.id[1]
     IN  /\ table' = [ n \in DOMAIN table \cup {id} |->
                         IF n = id THEN [oid |-> instance.oid] ELSE table[n] ]
         /\ instance' = [instance EXCEPT !.id = Given(id)]
         /\ saving' = [saving EXCEPT
                         !.stack[Len(saving.stack)] = Frame("post_save", insert),
                         !.writes = Append(saving.writes,
                                      [ kind   |-> IF insert THEN "insert" ELSE "update",
                                        oid    |-> instance.oid,
                                        nested |-> Len(saving.stack) > 1 ])]
  /\ UNCHANGED <<idoVars, threadVars, jsonVars, httpVars>>

\* The post_save signal of the innermost save(): _post_save runs up to its
\* call of instance.save(), or returns and so does the save().
PostSave ==
  /\ saving.stack # << >>
  /\ Top(saving.stack).pc = "post_save"
  /\ LET done == post_save(ido, instance, Top(saving.stack).created) IN
     IF done.exc # None
     THEN /\ saving' = [saving EXCEPT !.phase = "raised", !.stack = << >>]
          /\ instance' = instance
     ELSE IF done.save
     THEN /\ Len(saving.stack) < MaxDepth
          /\ instance' = done.instance
          /\ saving' = [saving EXCEPT
                          !.stack = Append([saving.stack EXCEPT ![Len(saving.stack)].pc = "nested"],
                                           Frame("pre_save", FALSE))]
     ELSE /\ instance' = instance
          /\ saving' = [saving EXCEPT
                          !.stack = Pop(saving.stack),
                          !.phase = IF Len(saving.stack) = 1 THEN "completed" ELSE "running"]
  /\ UNCHANGED <<idoVars, threadVars, table, jsonVars, httpVars>>

\* The nested save() has returned: _post_save returns and so does its save().
PostSaveReturn ==
  /\ saving.stack # << >>
  /\ Top(saving.stack).pc = "nested"
  /\ saving' = [saving EXCEPT
                  !.stack = Pop(saving.stack),
                  !.phase = IF Len(saving.stack) = 1 THEN "completed" ELSE "running"]
  /\ UNCHANGED <<idoVars, threadVars, instance, table, jsonVars, httpVars>>

SaveStep == PreSave \/ Write \/ PostSave \/ PostSaveReturn

NextSave ==
  \/ \E bits \in 1..MaxSaveBits : FieldInit(bits, ExplicitSeed, Absent)
  \/ \E id \in {Absent} \cup {Given(n) : n \in 1..MaxRowId} : NewInstance(id)
  \/ \E id \in 1..MaxRowId : Get(id)
  \/ \E value \in FieldValues : SetOid(value)
  \/ Save
  \/ PreSave
  \/ Write
  \/ PostSave
  \/ PostSaveReturn

\* A save() that was entered runs on: nothing but its own steps can happen
\* while it is in progress.
SpecSave == Init /\ [][NextSave]_vars /\ WF_vars(SaveStep)

----------------------------------------------------------------------------
(* JSONField.  A Python value is a node: its type t, its number n (int),   *)
(* its text s (strings) and its items (list, tuple; a dict is its items in *)
(* order, each an "item" node of a key and a value).  A string that an     *)
(* encoder wrote is told by its text and its one item: the text "json" is  *)
(* the JSON document that parses to the item, "zlib" the compression of    *)
(* the item, "base64" the base64 encoding of the item.                     *)

Node(t, n, str, items) == [ t |-> t, n |-> n, s |-> str, items |-> items ]
PyNone == Node("NoneType", 0, "", << >>)
PyInt(n) == Node("int", n, "", << >>)
PyStr(str) == Node("str", 0, str, << >>)
PyList(items) == Node("list", 0, "", items)
PyTuple(items) == Node("tuple", 0, "", items)
PyItem(key, value) == Node("item", 0, "", << key, value >>)
PyDict(items) == Node("dict", 0, "", items)
\* A value json.dumps does not know.
PyDatetime == Node("datetime", 0, "", << >>)

\* class JSONObject(str)
JSONObject(str) == [str EXCEPT !.t = "JSONObject"]
IsJSONObject(value) == value.t = "JSONObject"
IsStr(value) == value.t \in {"str", "unicode", "JSONObject"}

\* a == b of Python 2: an ASCII str equals the unicode of the same text, a
\* list never equals a tuple.
RECURSIVE PyEq(_, _)
PyEq(a, b) ==
  /\ IF IsStr(a) \/ IsStr(b) THEN IsStr(a) /\ IsStr(b) ELSE a.t = b.t
  /\ a.n = b.n
  /\ a.s = b.s
  /\ Len(a.items) = Len(b.items)
  /\ \A i \in 1..Len(a.items) : PyEq(a.items[i], b.items[i])

\* json.dumps(value) succeeds: None, int, strings, lists and tuples of such,
\* dicts of such whose keys are strings, ints or None.
RECURSIVE Serialisable(_)
Serialisable(value) ==
  \/ value.t \in {"NoneType", "int"}
  \/ IsStr(value)
  \/ /\ value.t \in {"list", "tuple"}
     /\ \A i \in 1..Len(value.items) : Serialisable(value.items[i])
  \/ /\ value.t = "dict"
     /\ \A i \in 1..Len(value.items) :
          /\ \/ IsStr(value.items[i].items[1])
             \/ value.items[i].items[1].t \in {"NoneType", "int"}
          /\ Serialisable(value.items[i].items[2])

\* The key json.dumps writes: a string as it is, an int in decimal, None as
\* null.
KeyText(key) ==
  IF IsStr(key) THEN Node("unicode", 0, key.s, key.items)
  ELSE IF key.t = "int" THEN Node("unicode", 0, ToString(key.n), << >>)
  ELSE Node("unicode", 0, "null", << >>)

\* What the document json.dumps(value) writes parses to: strings are read
\* as unicode, lists and tuples are both written as arrays and arrays are
\* read as lists, the keys of an object are strings.
RECURSIVE Parsed(_)
Parsed(value) ==
  IF IsStr(value) THEN Node("unicode", 0, value.s, value.items)
  ELSE IF value.t \in {"list", "tuple"}
  THEN PyList([i \in 1..Len(value.items) |-> Parsed(value.items[i])])
  ELSE IF value.t = "dict"
  THEN PyDict([i \in 1..Len(value.items) |->
                 PyItem(KeyText(value.items[i].items[1]),
                        Parsed(value.items[i].items[2]))])
  ELSE value

Ok(value) == [ exc |-> None, value |-> value ]
Raised(exc) == [ exc |-> exc, value |-> PyNone ]

json_dumps(value) ==
  IF Serialisable(value) THEN Ok(Node("str", 0, "json", << Parsed(value) >>))
  ELSE Raised("TypeError")

\* The text is a string, written by the encoder named.
WrittenBy(encoder, text) == IsStr(text) /\ text.s = encoder /\ Len(text.items) = 1

json_loads(text) ==
  IF WrittenBy("json", text) THEN Ok(text.items[1]) ELSE Raised("ValueError")

zlib_compress(text) == Node("str", 0, "zlib", << text >>)
zlib_decompress(data) ==
  IF WrittenBy("zlib", data) THEN Ok(data.items[1]) ELSE Raised("zlib.error")

b64encode(data) == Node("str", 0, "base64", << data >>)
b64decode(text) ==
  IF WrittenBy("base64", text) THEN Ok(text.items[1]) ELSE Raised("TypeError")

force_unicode(text) == [text EXCEPT !.t = "unicode"]

\* base64.b64encode(zlib.compress(json.dumps(value)))
dbsafe_encode(value) ==
  LET dumped == json_dumps(value) IN
  IF dumped.exc # None THEN dumped
  ELSE Ok(b64encode(zlib_compress(dumped.value)))

dbsafe_decode_not_decompressed(value) ==
  LET decoded == b64decode(value) IN
  IF decoded.exc # None THEN decoded ELSE json_loads(decoded.value)

\* json.loads(zlib.decompress(base64.b64decode(value)))
dbsafe_decode(value) ==
  LET decoded == b64decode(value) IN
  IF decoded.exc # None THEN decoded
  ELSE LET inflated == zlib_decompress(decoded.value) IN
       IF inflated.exc # None THEN inflated ELSE json_loads(inflated.value)

\* JSONField.to_python: a value that does not decode is returned as it is,
\* unless it is a JSONObject.
to_python(value) ==
  IF value # PyNone
  THEN LET decoded == dbsafe_decode(value) IN
       IF decoded.exc = None THEN decoded
       ELSE IF IsJSONObject(value) THEN decoded
       ELSE Ok(value)
  ELSE Ok(value)

\* JSONField.get_db_prep_value
get_db_prep_value(value) ==
  IF value # PyNone /\ ~IsJSONObject(value)
  THEN LET encoded == dbsafe_encode(value) IN
       IF encoded.exc # None THEN encoded ELSE Ok(force_unicode(encoded.value))
  ELSE Ok(value)

\* What the text column gives back for what was written to it: NULL for
\* None, unicode for a string.
Column(value) == IF IsStr(value) THEN force_unicode(value) ELSE value

\* The values assigned to the field.
JsonAtoms == { PyNone, PyInt(1), PyStr("foo") }
RECURSIVE JsonSeqs(_)
JsonSeqs(n) ==
  IF n <= 0 THEN { << >> }
  ELSE JsonSeqs(n - 1)
         \cup { Append(q, a) : q \in { x \in JsonSeqs(n - 1) : Len(x) = n - 1 },
                               a \in JsonAtoms }
JsonKeys == << PyStr("foo"), PyStr("bar"), PyInt(1) >>
\* The items of the dicts: keys in the order of JsonKeys, no key twice.
RECURSIVE JsonItems(_)
JsonItems(n) ==
  IF n <= 0 THEN { << >> }
  ELSE JsonItems(n - 1)
         \cup { Append(q, PyItem(JsonKeys[k], a)) :
                  q \in { x \in JsonItems(n - 1) :
                            /\ Len(x) = n - 1
                            /\ n - 1 < Len(JsonKeys) },
                  k \in 1..Len(JsonKeys), a \in JsonAtoms }
JsonDicts(n) ==
  { PyDict(q) : q \in { x \in JsonItems(n) :
                          \A i, j \in 1..Len(x) :
                            i < j => \E k, l \in 1..Len(JsonKeys) :
                                       /\ k < l
                                       /\ x[i].items[1] = JsonKeys[k]
                                       /\ x[j].items[1] = JsonKeys[l] } }
\* A str that holds the encoding of 1: what get_json_data_raw returns.
EncodedStr == dbsafe_encode(PyInt(1)).value
JsonValues ==
  JsonAtoms
    \cup { PyList(q) : q \in JsonSeqs(MaxItems) }
    \cup { PyTuple(q) : q \in JsonSeqs(MaxItems) }
    \cup JsonDicts(MaxItems)
    \cup { PyList(<< PyTuple(<< PyInt(1) >>) >>),
           PyDict(<< PyItem(PyStr("foo"), PyList(<< PyInt(1), PyNone >>)) >>),
           EncodedStr, JSONObject(EncodedStr), JSONObject(PyStr("foo")),
           PyDatetime }

\* instance.json_data = value: SubfieldBase passes it through to_python.
JsonAssign(value) ==
  /\ LET set == to_python(value) IN
     json' = [ assigned |-> TRUE,
               given    |-> value,
               stage    |-> IF set.exc = None THEN "assigned" ELSE "raised",
               exc      |-> set.exc,
               attr     |-> set.value,
               column   |-> PyNone,
               loaded   |-> PyNone ]
  /\ UNCHANGED <<idoVars, threadVars, saveVars, httpVars>>

\* instance.save(): the column is written with get_db_prep_value(attr).
JsonSave ==
  /\ json.assigned
  /\ json.stage = "assigned"
  /\ LET prepared == get_db_prep_value(json.attr) IN
     json' = IF prepared.exc = None
             THEN [json EXCEPT !.stage = "saved", !.column = Column(prepared.value)]
             ELSE [json EXCEPT !.stage = "raised", !.exc = prepared.exc]
  /\ UNCHANGED <<idoVars, threadVars, saveVars, httpVars>>

\* TestModel.objects.get(pk=instance.id).json_data: the column is passed
\* through to_python.
JsonGet ==
  /\ json.assigned
  /\ json.stage = "saved"
  /\ LET read == to_python(json.column) IN
     json' = [json EXCEPT !.stage = "read", !.exc = read.exc, !.loaded = read.value]
  /\ UNCHANGED <<idoVars, threadVars, saveVars, httpVars>>

NextJson ==
  \/ \E value \in JsonValues : JsonAssign(value)
  \/ JsonSave
  \/ JsonGet

SpecJson == Init /\ [][NextJson]_vars

----------------------------------------------------------------------------
(* method_required.                                                        *)

HttpMethods == {"GET", "POST", "PUT", "DELETE"}

\* The *methods a view is decorated with; POST_required, GET_required,
\* PUT_required and POST_or_PUT_required are among them.
RECURSIVE MethodsUpTo(_)
MethodsUpTo(n) ==
  IF n <= 0 THEN { << >> }
  ELSE MethodsUpTo(n - 1)
         \cup { Append(ms, m) : ms \in { x \in MethodsUpTo(n - 1) : Len(x) = n - 1 },
                                m \in HttpMethods }
MethodsChoices == MethodsUpTo(MaxMethods)

Request(method) == [ method |-> method ]
Response(status, allow, content) ==
  [ status |-> status, allow |-> allow, content |-> content ]
NoResponse == Response(0, << >>, << >>)

\* http.HttpResponseNotAllowed(methods): status 405, Allow: the methods.
HttpResponseNotAllowed(permitted_methods) ==
  Response(405, permitted_methods, << >>)

\* The decorated view: its result depends on the request and the arguments.
function(request, args) == Response(200, << >>, << request.method, args >>)

\* request.method in methods
In(x, seq) == \E i \in 1..Len(seq) : seq[i] = x

wrapper_inverted(methods, request, args) ==
  IF In(request.method, methods)
  THEN [ called |-> FALSE, response |-> HttpResponseNotAllowed(methods) ]
  ELSE [ called |-> TRUE, response |-> function(request, args) ]

\* _wrapper(request, *args, **kws) of method_required(*methods)(function):
\* what it returns and whether it called function.
wrapper(methods, request, args) ==
  IF ~In(request.method, methods)
  THEN [ called |-> FALSE, response |-> HttpResponseNotAllowed(methods) ]
  ELSE [ called |-> TRUE, response |-> function(request, args) ]

\* view = method_required(*methods)(function)
MethodRequired(methods) ==
  /\ http' = [ decorated |-> TRUE,
               methods   |-> methods,
               request   |-> Request(None),
               args      |-> 0,
               called    |-> FALSE,
               response  |-> NoResponse ]
  /\ UNCHANGED <<idoVars, threadVars, saveVars, jsonVars>>

\* view(request, args)
View(method, args) ==
  /\ http.decorated
  /\ LET request == Request(method)
         done == wrapper(http.methods, request, args)
     IN  http' = [ http EXCEPT !.request = request,
                               !.args = args,
                               !.called = done.called,
                               !.response = done.response ]
  /\ UNCHANGED <<idoVars, threadVars, saveVars, jsonVars>>

NextHttp ==
  \/ \E methods \in MethodsChoices : MethodRequired(methods)
  \/ \E method \in HttpMethods \cup {"HEAD"}, args \in 1..2 : View(method, args)

SpecHttp == Init /\ [][NextHttp]_vars

----------------------------------------------------------------------------
(* Vocabulary of the properties.                                           *)

\* Bit i of the integer x (two's complement for x < 0).
Bit(x, i) == (x \div 2^i) % 2

Returned(name) == ido # NoIdo /\ op.name = name /\ op.exc = None
FromSeed == ido # NoIdo /\ ido.seed # NoAttr
InRange(raw_value, bits) == 0 <= raw_value /\ raw_value < 2^bits
Distinct(chars) == \A i, j \in 1..Len(chars) : i # j => chars[i] # chars[j]

\* The digit a symbol stands for: its first index in the alphabet.
IndexOf(chars, c) ==
  CHOOSE i \in 0..(Len(chars) - 1) :
    At(chars, i) = c /\ \A j \in 0..(i - 1) : At(chars, j) # c

\* Horner accumulation in base 32, most significant symbol first.
RECURSIVE Decode(_, _, _, _)
Decode(chars, code, k, acc) ==
  IF k > Len(code) THEN acc
  ELSE Decode(chars, code, k + 1, 32 * acc + IndexOf(chars, code[k]))

----------------------------------------------------------------------------
(* C1: for bits >= 1 and any mask set create_from_seed can return, no two  *)
(* distinct raw values of [0, 2^bits) obtain the same obfuscated value.    *)
(* Stated on the value a call returned against every other raw in range.   *)
C1_NoCollision ==
  (Returned("get_obfuscated_id_value") /\ FromSeed /\ ido.bits >= 1
     /\ InRange(op.arg, ido.bits))
  => \A other \in 0..(2^ido.bits - 1) :
       other # op.arg => get_obfuscated_id_value(ido, other) # op.value

(* C2: for raw in [0, 2^bits) the value returned is xors[bits] combined,   *)
(* bit position by bit position modulo 2, with exactly the xors[i], i <    *)
(* bits, whose bit i is set in raw; raw = 0 returns xors[bits].            *)
C2_SelectsMasksOfSetBits ==
  (Returned("get_obfuscated_id_value") /\ ido.bits >= 0 /\ InRange(op.arg, ido.bits))
  => /\ \A j \in 0..(ido.bits + 6) :
          Bit(op.value, j) =
            ( Bit(At(ido.xors, ido.bits), j)
              + Cardinality({ i \in 0..(ido.bits - 1) :
                                Bit(op.arg, i) = 1 /\ Bit(At(ido.xors, i), j) = 1 }) ) % 2
     /\ op.value >= 0 /\ op.value < 2^(ido.bits + 7)
     /\ (op.arg = 0 => op.value = At(ido.xors, ido.bits))

C2_Witness ==
  /\ Returned("get_obfuscated_id_value")
  /\ ido.bits = 3 /\ op.arg = 5
  /\ ido.xors = MirrorXors(3)
  /\ op.value = 2

(* C3 as stated: mixing returns for every raw of [0, 2^bits) and raises a  *)
(* DomainError for every raw < 0 and every raw >= 2^bits.                  *)
C3_RaisesOutOfRange ==
  (ido # NoIdo /\ ido.bits >= 1 /\ op.name = "get_obfuscated_id_value")
  => IF InRange(op.arg, ido.bits)
     THEN op.exc = None
     ELSE op.exc = "DomainError"

(* C3 amended: mixing returns for every raw of [0, 2^bits); for raw < 0    *)
(* and raw >= 2^bits it returns too, the value of raw mod 2^bits: bits of  *)
(* raw at position bits and above are ignored.                             *)
C3_WrapsOutOfRange ==
  (ido # NoIdo /\ ido.bits >= 0 /\ op.name = "get_obfuscated_id_value")
  => /\ op.exc = None
     /\ op.value = get_obfuscated_id_value(ido, op.arg % 2^ido.bits)

C3_Witness ==
  /\ Returned("get_obfuscated_id_value")
  /\ ido.bits = 2 /\ op.arg = 4
  /\ ido.xors = MirrorXors(2)
  /\ op.value = 3

(* C4 as stated: the code has length ceil((bits+4)/5), the least w with    *)
(* 5w >= bits+4.                                                           *)
C4_LengthCeilOfBitsPlus4 ==
  (Returned("get_obfuscated_id") /\ ido.bits >= 1)
  => /\ 5 * Len(op.code) >= ido.bits + 4
     /\ 5 * (Len(op.code) - 1) < ido.bits + 4

(* C4 amended: the code has length floor((bits+4)/5) = ceil(bits/5), the   *)
(* least w with 5w >= bits, whatever the obfuscated value; the value 0     *)
(* gives that many copies of the alphabet's first symbol.                  *)
C4_LengthCeilOfBits ==
  (Returned("get_obfuscated_id") /\ ido.bits >= 1)
  => /\ 5 * Len(op.code) >= ido.bits
     /\ 5 * (Len(op.code) - 1) < ido.bits
     /\ (op.value = 0 => \A k \in 1..Len(op.code) : op.code[k] = At(ido.code_chars, 0))

C4_Witness ==
  /\ Returned("get_obfuscated_id")
  /\ ido.bits = 6 /\ op.value = 0
  /\ op.code = << "a", "a" >>

(* C5: over an alphabet of 32 distinct symbols, accumulating the indices   *)
(* of the symbols of the code of a value v of [0, 2^bits) in base 32, most *)
(* significant first, over the fixed width, gives v back.  The code thus   *)
(* determines v: no other value of [0, 2^bits) has the same code.          *)
C5_DecodeRecoversValue ==
  (Returned("get_obfuscated_id") /\ ido.bits >= 1 /\ Distinct(ido.code_chars)
     /\ InRange(op.value, ido.bits))
  => /\ Len(op.code) = Len(Encode(ido.code_chars, ido.bits, 0))
     /\ Decode(ido.code_chars, op.code, 1, 0) = op.value

C5_Witness ==
  /\ Returned("get_obfuscated_id")
  /\ ido.bits = 6 /\ op.value = 37
  /\ ido.code_chars = DEFAULT_CODE_CHARS
  /\ op.code = << "b", "f" >>

(* C6: the symbol at position k (from the left, from 0) of a code of width *)
(* w for the value v is alphabet[(v div 32^(w-1-k)) mod 32], and w is the  *)
(* width of the code of the value 0 and of the widest value alike: the     *)
(* loop never stops early.                                                 *)
C6_DigitAtPosition ==
  Returned("get_obfuscated_id")
  => LET w == Len(op.code) IN
     /\ \A k \in 0..(w - 1) :
          At(op.code, k) = At(ido.code_chars, (op.value \div 32^(w - 1 - k)) % 32)
     /\ w = Len(Encode(ido.code_chars, ido.bits, 0))
     /\ w = Len(Encode(ido.code_chars, ido.bits, 2^(ido.bits + 5)))

C6_Witness ==
  /\ Returned("get_obfuscated_id")
  /\ ido.bits = 6 /\ op.value = 37
  /\ ido.code_chars = Reversed(DEFAULT_CODE_CHARS)
  /\ op.code = << "8", "4" >>

(* C7: an obfuscator built again with the same bits and the same explicit  *)
(* seed has the same mask set as the one built before, and gives every raw *)
(* value the same code.                                                    *)
C7_SameSeedSameMasks ==
  (ido # NoIdo /\ prev # NoIdo /\ ido.seed = ExplicitSeed
     /\ prev.seed = ido.seed /\ prev.bits = ido.bits)
  => /\ ido.xors = prev.xors
     /\ \A raw_value \in RawValues(ido) :
          get_obfuscated_id(ido, raw_value) = get_obfuscated_id(prev, raw_value)

C7_Witness ==
  /\ ido # NoIdo /\ prev # NoIdo
  /\ ido.seed = ExplicitSeed /\ prev.seed = ExplicitSeed
  /\ ido.bits = 2 /\ prev.bits = 2
  /\ op.name = "get_obfuscated_id"

(* C8: create_from_seed(bits, seed), bits >= 1, returns bits+1 masks, each *)
(* in [0, 2^bits), and every value the obfuscator returns is in [0, 2^bits). *)
C8_MasksWithinBits ==
  /\ (Returned("create_from_seed") /\ op.arg >= 1)
     => /\ Len(ido.xors) = op.arg + 1
        /\ \A k \in 1..Len(ido.xors) : InRange(ido.xors[k], op.arg)
  /\ (Returned("get_obfuscated_id_value") /\ FromSeed /\ ido.bits >= 1)
     => InRange(op.value, ido.bits)

C8_Witness ==
  /\ Returned("get_obfuscated_id_value") /\ FromSeed
  /\ ido.bits = 2 /\ op.arg = 3
  /\ ido.xors = << 3, 1, 2 >>

(* C9: an obfuscator exists only with an alphabet of exactly 32 distinct   *)
(* symbols; construction with any other alphabet fails.                    *)
C9_AlphabetOf32Distinct ==
  (ido # NoIdo /\ ido.bits >= 1)
  => (Len(ido.code_chars) = 32 /\ Distinct(ido.code_chars))

(* C10: no obfuscator has bits < 1, and no construction asked for          *)
(* bits <= 0 returns.                                                      *)
C10_BitsPositive ==
  /\ ido # NoIdo => ido.bits >= 1
  /\ (op.name \in {"create_from_seed", "__init__", "ObfuscatedIdField"} /\ op.arg <= 0)
     => op.exc = "ConfigurationError"

(* C11 as stated, on the mask sets of create_from_seed that map no two raw *)
(* values of [0, 2^bits) to one value: applying get_obfuscated_id_value to *)
(* the value it returned for raw gives raw back.                           *)
C11_SelfInverse ==
  (Returned("get_obfuscated_id_value") /\ FromSeed /\ ido.bits >= 1
     /\ InRange(op.arg, ido.bits)
     /\ \A a, b \in 0..(2^ido.bits - 1) :
          a # b => get_obfuscated_id_value(ido, a) # get_obfuscated_id_value(ido, b))
  => get_obfuscated_id_value(ido, op.value) = op.arg

(* C11 amended: XOR is its own inverse, so combining the value returned    *)
(* for raw once more with the masks that the bits of raw select gives the  *)
(* base mask xors[bits] back.                                              *)
C11_XorUndoesSelection ==
  (Returned("get_obfuscated_id_value") /\ FromSeed /\ ido.bits >= 1)
  => MixLoop(Zip(ido.masks, ido.xors), 1, op.arg, op.value) = At(ido.xors, ido.bits)

C11_Witness ==
  /\ Returned("get_obfuscated_id_value") /\ FromSeed
  /\ ido.xors = << 3, 1, 2 >>
  /\ op.arg = 2 /\ op.value = 3

(* C12: for raw >= 0 the code of raw + 2^bits is the code of raw, and none *)
(* of the 2^bits - 1 raw values that follow raw has the code of raw.       *)
C12_PeriodWithoutRepeat ==
  (Returned("get_obfuscated_id") /\ FromSeed /\ ido.bits >= 1 /\ op.arg >= 0)
  => /\ get_obfuscated_id(ido, op.arg + 2^ido.bits) = op.code
     /\ \A other \in (op.arg + 1)..(op.arg + 2^ido.bits - 1) :
          get_obfuscated_id(ido, other) # op.code

\* m is x with each set bit at a position q < bits moved to position p[q].
IsMoved(m, x, p, bits) ==
  /\ InRange(m, bits)
  /\ \A j \in 0..(bits - 1) :
       (Bit(m, j) = 1) <=> (\E q \in 0..(bits - 1) : Bit(x, q) = 1 /\ At(p, q) = j)

(* C16: with the candidates c[i] = 2^i + (the i-th integer drawn) and the  *)
(* one shuffle p drawn after them, xors[k] is c[bits-k] with each set bit  *)
(* at a position q < bits moved to p[q], for every k in 0..bits; the base  *)
(* mask xors[bits] is the image of c[0] = 1.                               *)
C16_ReversedSharedPermutation ==
  (ido # NoIdo /\ ido.seed = ExplicitSeed /\ ido.bits >= 1)
  => LET bits == ido.bits
         p == tape.shuffle[bits]
     IN  /\ Len(ido.xors) = bits + 1
         /\ \A k \in 0..bits :
              IsMoved(At(ido.xors, k), 2^(bits - k) + At(tape.r, bits - k), p, bits)
         /\ At(ido.xors, bits) = 2^At(p, 0)

C16_Witness ==
  /\ ido # NoIdo /\ ido.seed = ExplicitSeed /\ ido.bits = 2
  /\ tape.shuffle[2] = << 1, 0 >>
  /\ tape.r = << 0, 1, 2 >>
  /\ ido.xors = << 1, 3, 2 >>

(* C15: the decorated view calls the function exactly when request.method  *)
(* is one of the methods given, and then returns the function's result     *)
(* unchanged; otherwise it returns a 405 response whose Allow lists the    *)
(* methods given.                                                          *)
C15_InvokedIffMethodListed ==
  (http.decorated /\ http.request.method # None)
  => LET listed == \E i \in 1..Len(http.methods) :
                     http.methods[i] = http.request.method
     IN  /\ http.called <=> listed
         /\ listed => http.response = function(http.request, http.args)
         /\ ~listed => /\ http.response.status = 405
                        /\ http.response.allow = http.methods
                        /\ http.response.content = << >>

C15_Witness ==
  /\ http.decorated
  /\ http.methods = << "POST", "PUT" >>
  /\ http.request.method = "GET"
  /\ ~http.called
  /\ http.response = Response(405, << "POST", "PUT" >>, << >>)

\* The call of thread t has returned what the same call returns when alone.
ReturnedAsAlone(t) ==
  LET frame == threads[t] IN
  IF frame.method = "get_obfuscated_id_value"
  THEN frame.ret.value = get_obfuscated_id_value(ido, frame.raw_value)
  ELSE frame.ret.code = get_obfuscated_id(ido, frame.raw_value)

(* C17: no step of a call changes the obfuscator (xors, bits, masks,       *)
(* code_chars), and under every interleaving of the calls of the threads   *)
(* each call that has returned has returned the result of the same call    *)
(* executed alone.                                                         *)
C17_ConcurrentCallsAsAlone ==
  /\ [](\A t \in DOMAIN threads : threads[t].pc = "done" => ReturnedAsAlone(t))
  /\ [][ido # NoIdo => ido' = ido]_vars

C17_Witness ==
  /\ threads # NoThreads
  /\ ido.xors = WideXors(2)
  /\ threads["t1"].pc = "done" /\ threads["t1"].interleaved
  /\ threads["t1"].method = "get_obfuscated_id" /\ threads["t1"].raw_value = 3
  /\ threads["t1"].ret.code = get_obfuscated_id(ido, 3)
  /\ threads["t2"].pc = "mix" /\ threads["t2"].interleaved
  /\ threads["t2"].raw_value = 1 /\ threads["t2"].k = 1

\* The value the field must hold for the primary key id.
OidOf(id) == Given(get_obfuscated_id(ido, id))

(* C13: after every completed save() the instance has a positive id, and   *)
(* the field on the instance and in the stored row is get_obfuscated_id(id) *)
(* whatever the field held before; once _pre_save has run, the field of    *)
(* the instance is None only in the first save() of a new instance between *)
(* its pre_save and its post_save, and the column of a row is null only    *)
(* from the insert of that save() to the write that its post_save issues.  *)
C13_FieldIsObfuscatedSource ==
  /\ saving.phase # "raised"
  /\ saving.phase = "completed"
       => /\ Truthy(instance.id)
          /\ instance.oid = OidOf(instance.id[1])
          /\ instance.id[1] \in DOMAIN table
          /\ table[instance.id[1]].oid = OidOf(instance.id[1])
  /\ (saving.phase = "running" /\ instance.oid = Absent
         /\ ~(Len(saving.stack) = 1 /\ Top(saving.stack).pc = "pre_save"))
       => /\ Len(saving.stack) = 1
          /\ Top(saving.stack).pc \in {"write", "post_save"}
          /\ saving.new /\ saving.auto
  /\ \A id \in DOMAIN table :
       table[id].oid = Absent
       => /\ saving.phase = "running"
          /\ saving.stack[1].pc \in {"post_save", "nested"}
          /\ Len(saving.writes) = 1
          /\ instance.id = Given(id)
          /\ saving.new /\ saving.auto

C13_Witness ==
  /\ saving.phase = "completed" /\ saving.new /\ saving.auto
  /\ saving.before = Given(<< "?" >>)
  /\ saving.writes[1].oid = Absent
  /\ instance.id = Given(2)
  /\ instance.oid = OidOf(2)
  /\ table[2].oid = OidOf(2)

\* What C18 says of the writes of a save(), but for the field of the insert.
TwoWritesOrOne ==
  /\ Len(saving.stack) <= 2
  /\ Len(saving.stack) = 2 => ~Top(saving.stack).created
  /\ (saving.phase = "completed" /\ saving.new)
       => /\ Len(saving.writes) = 2
          /\ saving.writes[1].kind = "insert" /\ ~saving.writes[1].nested
          /\ saving.writes[2].kind = "update" /\ saving.writes[2].nested
  /\ (saving.phase = "completed" /\ ~saving.new)
       => /\ Len(saving.writes) = 1
          /\ saving.writes[1].kind = "update" /\ ~saving.writes[1].nested

(* C18 as stated: the save() of a new instance issues exactly two writes,  *)
(* the insert, with the field null, and the update of the one nested       *)
(* save(), which is not a creation; the save() of an existing instance     *)
(* issues one update and no nested save().                                 *)
C18_InsertNullThenNestedSave ==
  /\ TwoWritesOrOne
  /\ (saving.phase = "completed" /\ saving.new) => saving.writes[1].oid = Absent

(* C18 amended: as stated, but the insert carries a null field exactly     *)
(* when it is the insert that assigns the id; a new instance that was      *)
(* given its id is inserted with the obfuscated id already.  Every save()  *)
(* that is entered completes.                                              *)
C18_TwoWritesThenDone ==
  /\ [](/\ TwoWritesOrOne
        /\ (saving.phase = "completed" /\ saving.new)
             => saving.writes[1].oid = IF saving.auto THEN Absent
                                       ELSE OidOf(instance.id[1]))
  /\ (saving.phase = "running") ~> (saving.phase = "completed")

C18_Witness ==
  /\ saving.phase = "completed" /\ saving.new /\ ~saving.auto
  /\ instance.id = Given(2)
  /\ Len(saving.writes) = 2
  /\ saving.writes[1] = [kind |-> "insert", oid |-> OidOf(2), nested |-> FALSE]
  /\ saving.writes[2] = [kind |-> "update", oid |-> OidOf(2), nested |-> TRUE]

\* to_python(get_db_prep_value(value)) == value
RoundTrips(value) ==
  LET prepared == get_db_prep_value(value) IN
  /\ prepared.exc = None
  /\ to_python(prepared.value).exc = None
  /\ PyEq(to_python(prepared.value).value, value)

(* C14 as stated: for every JSON-serialisable value other than None,       *)
(* to_python(get_db_prep_value(v)) = v, and the value assigned, saved and  *)
(* re-read equals the value assigned; None is stored as NULL, unencoded,   *)
(* and read back as None.                                                  *)
C14_RoundTripOfSerialisable ==
  json.assigned
  => /\ (Serialisable(json.given) /\ json.given # PyNone)
          => /\ RoundTrips(json.given)
             /\ json.stage # "raised"
             /\ json.stage = "read" => PyEq(json.loaded, json.given)
     /\ json.given = PyNone
          => /\ get_db_prep_value(PyNone) = Ok(PyNone)
             /\ json.stage \in {"saved", "read"} => json.column = PyNone
             /\ json.stage = "read" => json.loaded = PyNone

\* Made of None, ints, strings (no JSONObject), lists, and dicts whose keys
\* are strings: the values that JSON tells apart.
RECURSIVE JsonNative(_)
JsonNative(value) ==
  \/ value.t \in {"NoneType", "int", "str", "unicode"}
  \/ /\ value.t = "list"
     /\ \A i \in 1..Len(value.items) : JsonNative(value.items[i])
  \/ /\ value.t = "dict"
     /\ \A i \in 1..Len(value.items) :
          /\ value.items[i].items[1].t \in {"str", "unicode"}
          /\ JsonNative(value.items[i].items[2])

(* C14 amended: for every value other than None made of None, ints,        *)
(* strings, lists and dicts with string keys, to_python(get_db_prep_value( *)
(* v)) = v, and such a value, unless it is a string that holds a dbsafe    *)
(* encoding, equals the value re-read after it was assigned and saved;     *)
(* None is stored as NULL, unencoded, and read back as None.               *)
C14_RoundTripOfJsonNative ==
  json.assigned
  => /\ (JsonNative(json.given) /\ json.given # PyNone)
          => /\ RoundTrips(json.given)
             /\ get_db_prep_value(json.given).value.s = "base64"
             /\ dbsafe_decode(json.given).exc # None
                  => /\ json.stage # "raised"
                     /\ json.stage = "read" => PyEq(json.loaded, json.given)
     /\ json.given = PyNone
          => /\ get_db_prep_value(PyNone) = Ok(PyNone)
             /\ json.stage \in {"saved", "read"} => json.column = PyNone
             /\ json.stage = "read" => json.loaded = PyNone

C14_Witness ==
  /\ json.assigned /\ json.stage = "read"
  /\ json.given = PyDict(<< PyItem(PyStr("foo"), PyInt(1)),
                            PyItem(PyStr("bar"), PyStr("foo")) >>)
  /\ json.column.t = "unicode" /\ json.column.s = "base64"
  /\ json.loaded # json.given
  /\ PyEq(json.loaded, json.given)

====
